---- MODULE Spec2Model ----
(***************************************************************************)
(* Model of the Updog post controllers                                     *)
(* (src/backend/server/controllers/posts.js, wired by routes/index.js).    *)
(*                                                                         *)
(* Every handler is an async function: it runs synchronously up to an      *)
(* await on a store call, and other requests may run in between.  One     *)
(* action of the model is one such synchronous stretch: the store call     *)
(* that was awaited takes effect and the code after it runs up to the next *)
(* await or to the end of the handler.  The first stretch of a handler     *)
(* touches nothing but its own request, so it is taken together with the   *)
(* store call it ends in: a request is received at the moment its first    *)
(* store call takes effect.                                                *)
(***************************************************************************)
EXTENDS Integers, FiniteSets, Sequences, TLC

\* ---------------------------------------------------------------- bounds
NumSlots == 2          \* requests in flight at the same time
MaxRequests == 3       \* requests received in one run
MaxPosts == 2          \* createPost requests received in one run

\* ---------------------------------------------------------------- values
Null == 0              \* JS null / undefined, SQL NULL
Slots == 1..NumSlots
UserIds == {1, 2}
PostIds == 1..MaxPosts
Tokens == {"", "bad", "token1", "token2"}

NoPost == [id |-> Null, text_content |-> "", author |-> Null, parent |-> Null]
NoReq == [handler |-> "none", authToken |-> "", id |-> Null,
          text_content |-> "", parent |-> Null]
NoRes == [status |-> 0, body |-> "", attempts |-> 0, escaped |-> FALSE]
NoHist == [touched |-> FALSE, affected |-> -1]
NoInsert == [author |-> Null, parent |-> Null, identity |-> Null,
             parentExisted |-> TRUE]
ShareKeys == PostIds \X (UserIds \cup {Null})

VARIABLES
    pc,          \* position of the handler running in each slot
    req,         \* the request of each slot: header, params.id, body
    res,         \* the response object of each slot
    hist,        \* history of the slot's request: touched, it made a store
                 \* call; affected, the rows its own write matched (-1
                 \* before the write)
    last,        \* the request whose handler has just returned: req, res,
                 \* hist; empty once the response has left
    posts,       \* models.posts: the rows of the post table
    nextId,      \* the next generated post id
    sharedPost,  \* models.sharedPost: number of rows per (postId, userId)
    received,    \* number of requests received so far
    inserted,    \* history: per post id, what the inserting request gave
    okDeletes    \* history: per post id, number of 200 answers to DELETE

vars == <<pc, req, res, hist, last, posts, nextId, sharedPost, received,
          inserted, okDeletes>>

\* -------------------------------------------------------- collaborators
\* Authentication.extractUser: an identity with an id, or one without.
extractUser(authToken) ==
    CASE authToken = "token1" -> [id |-> 1]
      [] authToken = "token2" -> [id |-> 2]
      [] OTHER -> [id |-> Null]

\* models.posts.findByPk
findByPk(id) ==
    IF \E row \in posts : row.id = id
    THEN CHOOSE row \in posts : row.id = id
    ELSE NoPost

\* models.posts.destroy({where: {id}}): the count removed, the rows left
postsDestroyCount(id) == Cardinality({row \in posts : row.id = id})
postsDestroy(id) == {row \in posts : row.id # id}

\* models.sharedPost.create({postId, userId})
sharedPostCreate(store, postId, userId) ==
    [store EXCEPT ![<<postId, userId>>] = @ + 1]

\* models.sharedPost.destroy({where: {postId, userId}})
sharedPostDestroyCount(store, postId, userId) == store[<<postId, userId>>]
sharedPostDestroy(store, postId, userId) ==
    [store EXCEPT ![<<postId, userId>>] = 0]

\* ------------------------------------------------------------- response
\* res.status(500).send(error) in a catch block: a send after the response
\* went out throws again, and nothing is left to catch it.
Catch(rs) ==
    IF rs.status = 0
    THEN [status |-> 500, body |-> "error",
          attempts |-> rs.attempts + 1, escaped |-> FALSE]
    ELSE [rs EXCEPT !.attempts = @ + 1, !.escaped = TRUE]

\* res.status(s).send(b) inside the try block: a second send throws
\* (headers already sent) and control passes to the catch block.
Send(rs, s, b) ==
    IF rs.status = 0
    THEN [status |-> s, body |-> b,
          attempts |-> rs.attempts + 1, escaped |-> FALSE]
    ELSE Catch([rs EXCEPT !.attempts = @ + 1])

\* ------------------------------------------------- the handlers' tests
\* if (!authToken)
missingToken(authToken) == authToken = ""

\* if (!decodedUser.id)
invalidUser(decodedUser) == decodedUser.id = Null

\* if (parent || body.parent == null)
parentAccepted(parent, body) == parent # NoPost \/ body.parent = Null

\* the ownership test left out
isAuthor_skipped(post, decodedUser) == TRUE

\* post.author === decodedUser.id
isAuthor(post, decodedUser) == post.author = decodedUser.id

\* the row models.posts.create is given in createPost
newPost(id, body, decodedUser) ==
    [id |-> id, text_content |-> body.text_content,
     author |-> decodedUser.id, parent |-> body.parent]

\* the update given the whole body, parent included
updatedPost_wholeBody(row, body) ==
    [row EXCEPT !.text_content = body.text_content, !.parent = body.parent]

\* the row models.posts.update leaves in modifyPostById
updatedPost(row, body) == [row EXCEPT !.text_content = body.text_content]

\* if (updated): models.posts.update resolves to the array [affectedCount],
\* and an array is truthy whatever it holds.
updatedTruthy(updated) == Len(updated) >= 0

\* the count of the destroy not looked at
destroyed_unchecked(count) == TRUE

\* if (count !== 0) in deletePostById
destroyed(count) == count # 0

\* the count of the unshare not looked at
unsharedRows_unchecked(count) == TRUE

\* if (count) in unsharePostById
unsharedRows(count) == count # 0

\* ------------------------------------------------------------ helpers
NoLast == [req |-> NoReq, res |-> NoRes, hist |-> NoHist]
Running(r) == pc[r] # "idle"
\* the handler of slot r, one of kind h, resumes from its await at label
At(r, h, label) == last = NoLast /\ pc[r] = label /\ req[r].handler = h
PendingCreates ==
    Cardinality({s \in Slots : Running(s) /\ req[s].handler = "createPost"})

\* the handler of request q returns, having sent rs
Return(r, q, rs, h) ==
    /\ pc' = [pc EXCEPT ![r] = "idle"]
    /\ req' = [req EXCEPT ![r] = NoReq]
    /\ res' = [res EXCEPT ![r] = NoRes]
    /\ hist' = [hist EXCEPT ![r] = NoHist]
    /\ last' = [req |-> q, res |-> rs, hist |-> h]

\* the handler of request q awaits the store call named by label
Await(r, q, rs, h, label) ==
    /\ pc' = [pc EXCEPT ![r] = label]
    /\ req' = [req EXCEPT ![r] = q]
    /\ res' = [res EXCEPT ![r] = rs]
    /\ hist' = [hist EXCEPT ![r] = h]
    /\ UNCHANGED last

StoreUnchanged == UNCHANGED <<posts, nextId, sharedPost>>
HistoryUnchanged == UNCHANGED <<inserted, okDeletes>>

Touched(h) == [h EXCEPT !.touched = TRUE]

\* the requests a client can send to each route
Requests ==
    {[handler |-> "createPost", authToken |-> t, id |-> Null,
      text_content |-> "hello", parent |-> p] :
        t \in Tokens, p \in PostIds \cup {Null}}
    \cup {[handler |-> "getPostById", authToken |-> "", id |-> i,
           text_content |-> "", parent |-> Null] : i \in PostIds}
    \cup {[handler |-> "modifyPostById", authToken |-> t, id |-> i,
           text_content |-> "edited", parent |-> Null] :
             t \in Tokens, i \in PostIds}
    \cup {[handler |-> h, authToken |-> t, id |-> i,
           text_content |-> "", parent |-> Null] :
             h \in {"deletePostById", "sharePostById", "unsharePostById"},
             t \in Tokens, i \in PostIds}

\* ------------------------------------------------------------- routing
\* router.route(...): request q arrives and its handler is entered.  Slots
\* carry no identity, so the request takes the lowest free one.
Receive(r, q) ==
    /\ last = NoLast
    /\ pc[r] = "idle"
    /\ \A s \in Slots : s < r => Running(s)
    /\ received < MaxRequests
    /\ q.handler = "createPost" => nextId + PendingCreates <= MaxPosts
    /\ received' = received + 1

Init ==
    /\ pc = [r \in Slots |-> "idle"]
    /\ req = [r \in Slots |-> NoReq]
    /\ res = [r \in Slots |-> NoRes]
    /\ hist = [r \in Slots |-> NoHist]
    /\ last = NoLast
    /\ posts = {}
    /\ nextId = 1
    /\ sharedPost = [k \in ShareKeys |-> 0]
    /\ received = 0
    /\ inserted = [p \in PostIds |-> NoInsert]
    /\ okDeletes = [p \in PostIds |-> 0]

\* ---------------------------------------------------------- createPost
\* lines 14-31 and 40-44: the 401 branch does not return; findByPk is
\* called next, and its result is tested.
createPost(r) ==
    /\ \E q \in Requests, fail \in BOOLEAN :
        /\ q.handler = "createPost"
        /\ Receive(r, q)
        /\ IF missingToken(q.authToken)
           THEN Return(r, q, Send(NoRes, 400, "Auth token not provided"),
                       NoHist)
           ELSE LET rs == IF invalidUser(extractUser(q.authToken))
                          THEN Send(NoRes, 401, "Auth token invalid")
                          ELSE NoRes
                    parent == findByPk(q.parent) IN
                IF fail
                THEN Return(r, q, Catch(rs), Touched(NoHist))
                ELSE IF parentAccepted(parent, q)
                THEN Await(r, q, rs, Touched(NoHist), "create")
                ELSE Return(r, q,
                            Send(rs, 404,
                                 "Parent with that id does not exist."),
                            Touched(NoHist))
    /\ StoreUnchanged /\ HistoryUnchanged

\* lines 33-39: the insert, the DTO and the 201.
createPost_create(r) ==
    /\ At(r, "createPost", "create")
    /\ \E fail \in BOOLEAN :
        IF fail
        THEN /\ Return(r, req[r], Catch(res[r]), hist[r])
             /\ UNCHANGED <<posts, nextId, inserted>>
        ELSE LET decodedUser == extractUser(req[r].authToken)
                 post == newPost(nextId, req[r], decodedUser) IN
             /\ posts' = posts \cup {post}
             /\ nextId' = nextId + 1
             /\ inserted' = [inserted EXCEPT ![nextId] =
                    [author |-> post.author, parent |-> post.parent,
                     identity |-> decodedUser.id,
                     parentExisted |-> \/ req[r].parent = Null
                                       \/ findByPk(req[r].parent) # NoPost]]
             /\ Return(r, req[r], Send(res[r], 201, "postDTO"),
                       [hist[r] EXCEPT !.affected = 1])
    /\ UNCHANGED <<received, sharedPost, okDeletes>>

\* --------------------------------------------------------- getPostById
\* lines 60-75
getPostById(r) ==
    /\ \E q \in Requests, fail \in BOOLEAN :
        /\ q.handler = "getPostById"
        /\ Receive(r, q)
        /\ IF fail
           THEN Return(r, q, Catch(NoRes), Touched(NoHist))
           ELSE IF findByPk(q.id) # NoPost
           THEN Return(r, q, Send(NoRes, 200, "postDTO"), Touched(NoHist))
           ELSE Return(r, q, Send(NoRes, 404, "ID not found."),
                       Touched(NoHist))
    /\ StoreUnchanged /\ HistoryUnchanged

\* ------------------------------------------------------ modifyPostById
\* lines 88-108 and 121-123
modifyPostById(r) ==
    /\ \E q \in Requests, fail \in BOOLEAN :
        /\ q.handler = "modifyPostById"
        /\ Receive(r, q)
        /\ IF missingToken(q.authToken)
           THEN Return(r, q, Send(NoRes, 400, "Auth token not provided"),
                       NoHist)
           ELSE IF invalidUser(extractUser(q.authToken))
           THEN Return(r, q, Send(NoRes, 401, "Auth token invalid"), NoHist)
           ELSE LET post == findByPk(q.id) IN
                IF fail
                THEN Return(r, q, Catch(NoRes), Touched(NoHist))
                ELSE IF post = NoPost
                THEN Return(r, q, Send(NoRes, 404, "Invalid message ID."),
                            Touched(NoHist))
                ELSE IF isAuthor(post, extractUser(q.authToken))
                THEN Await(r, q, NoRes, Touched(NoHist), "update")
                ELSE Return(r, q, Send(NoRes, 403, "Invalid author ID."),
                            Touched(NoHist))
    /\ StoreUnchanged /\ HistoryUnchanged

\* lines 110-120
modifyPostById_update(r) ==
    /\ At(r, "modifyPostById", "update")
    /\ \E fail \in BOOLEAN :
        IF fail
        THEN /\ Return(r, req[r], Catch(res[r]), hist[r])
             /\ UNCHANGED posts
        ELSE LET matched == {row \in posts : row.id = req[r].id}
                 updated == <<Cardinality(matched)>>
                 h == [hist[r] EXCEPT !.affected = Cardinality(matched)] IN
             /\ posts' = (posts \ matched)
                         \cup {updatedPost(row, req[r]) : row \in matched}
             /\ IF updatedTruthy(updated)
                THEN Return(r, req[r],
                            Send(res[r], 200,
                                 "The message has been updated."), h)
                ELSE Return(r, req[r],
                            Send(res[r], 500,
                                 "Failed to update the post."), h)
    /\ UNCHANGED <<received, nextId, sharedPost>>
    /\ HistoryUnchanged

\* ------------------------------------------------------ deletePostById
\* lines 143-163 and 172-174
deletePostById(r) ==
    /\ \E q \in Requests, fail \in BOOLEAN :
        /\ q.handler = "deletePostById"
        /\ Receive(r, q)
        /\ IF missingToken(q.authToken)
           THEN Return(r, q, Send(NoRes, 400, "Auth token not provided"),
                       NoHist)
           ELSE IF invalidUser(extractUser(q.authToken))
           THEN Return(r, q, Send(NoRes, 401, "Auth token invalid"), NoHist)
           ELSE LET post == findByPk(q.id) IN
                IF fail
                THEN Return(r, q, Catch(NoRes), Touched(NoHist))
                ELSE IF post = NoPost
                THEN Return(r, q, Send(NoRes, 404, "Invalid post ID."),
                            Touched(NoHist))
                ELSE IF isAuthor(post, extractUser(q.authToken))
                THEN Await(r, q, NoRes, Touched(NoHist), "destroy")
                ELSE Return(r, q, Send(NoRes, 403, "Invalid author ID."),
                            Touched(NoHist))
    /\ StoreUnchanged /\ HistoryUnchanged

\* lines 164-171
deletePostById_destroy(r) ==
    /\ At(r, "deletePostById", "destroy")
    /\ \E fail \in BOOLEAN :
        IF fail
        THEN /\ Return(r, req[r], Catch(res[r]), hist[r])
             /\ UNCHANGED posts
        ELSE LET count == postsDestroyCount(req[r].id)
                 h == [hist[r] EXCEPT !.affected = count] IN
             /\ posts' = postsDestroy(req[r].id)
             /\ IF destroyed(count)
                THEN Return(r, req[r],
                            Send(res[r], 200, "The post has been deleted."),
                            h)
                ELSE Return(r, req[r],
                            Send(res[r], 500, "Failed to destroy the post."),
                            h)
    /\ okDeletes' = [okDeletes EXCEPT ![req[r].id] =
                        IF last'.res.status = 200 THEN @ + 1 ELSE @]
    /\ UNCHANGED <<received, nextId, sharedPost, inserted>>

\* ------------------------------------------------------- sharePostById
\* lines 185-202 and 213-217: the 401 branch does not return; findByPk is
\* called next, and its result is tested.
sharePostById(r) ==
    /\ \E q \in Requests, fail \in BOOLEAN :
        /\ q.handler = "sharePostById"
        /\ Receive(r, q)
        /\ IF missingToken(q.authToken)
           THEN Return(r, q, Send(NoRes, 400, "Auth token not provided"),
                       NoHist)
           ELSE LET rs == IF invalidUser(extractUser(q.authToken))
                          THEN Send(NoRes, 401, "Auth token invalid")
                          ELSE NoRes IN
                IF fail
                THEN Return(r, q, Catch(rs), Touched(NoHist))
                ELSE IF findByPk(q.id) # NoPost
                THEN Await(r, q, rs, Touched(NoHist), "create")
                ELSE Return(r, q,
                            Send(rs, 404,
                                 "Parent with that id does not exist."),
                            Touched(NoHist))
    /\ StoreUnchanged /\ HistoryUnchanged

\* lines 204-212: targetPost.id is the key findByPk matched, params.id;
\* create resolves to the new row, which is truthy.
sharePostById_create(r) ==
    /\ At(r, "sharePostById", "create")
    /\ \E fail \in BOOLEAN :
        IF fail
        THEN /\ Return(r, req[r], Catch(res[r]), hist[r])
             /\ UNCHANGED sharedPost
        ELSE /\ sharedPost' = sharedPostCreate(sharedPost, req[r].id,
                                  extractUser(req[r].authToken).id)
             /\ Return(r, req[r], Send(res[r], 201, "Post shared."),
                       [hist[r] EXCEPT !.affected = 1])
    /\ UNCHANGED <<received, posts, nextId>>
    /\ HistoryUnchanged

\* ----------------------------------------------------- unsharePostById
\* lines 227-251
unsharePostById(r) ==
    /\ \E q \in Requests, fail \in BOOLEAN :
        /\ q.handler = "unsharePostById"
        /\ Receive(r, q)
        /\ IF missingToken(q.authToken)
           THEN /\ Return(r, q,
                          Send(NoRes, 400, "Auth token not provided"),
                          NoHist)
                /\ UNCHANGED sharedPost
           ELSE IF invalidUser(extractUser(q.authToken))
           THEN /\ Return(r, q, Send(NoRes, 401, "Auth token invalid"),
                          NoHist)
                /\ UNCHANGED sharedPost
           ELSE IF fail
           THEN /\ Return(r, q, Catch(NoRes), Touched(NoHist))
                /\ UNCHANGED sharedPost
           ELSE LET userId == extractUser(q.authToken).id
                    count == sharedPostDestroyCount(sharedPost, q.id, userId)
                    h == [touched |-> TRUE, affected |-> count] IN
                /\ sharedPost' = sharedPostDestroy(sharedPost, q.id, userId)
                /\ IF unsharedRows(count)
                   THEN Return(r, q,
                               Send(NoRes, 200,
                                    "The post has been unshared."), h)
                   ELSE Return(r, q,
                               Send(NoRes, 404,
                              "The post was not shared by the user before."),
                               h)
    /\ UNCHANGED <<posts, nextId>>
    /\ HistoryUnchanged

\* ------------------------------------------------------------- delivery
\* The response of the handler that returned leaves for the client.  The
\* model lets one response leave before the next stretch of code runs.
Deliver ==
    /\ last # NoLast
    /\ last' = NoLast
    /\ UNCHANGED <<pc, req, res, hist, received>>
    /\ StoreUnchanged /\ HistoryUnchanged

\* ---------------------------------------------------------------- system
Step(r) ==
    \/ createPost(r)
    \/ createPost_create(r)
    \/ getPostById(r)
    \/ modifyPostById(r)
    \/ modifyPostById_update(r)
    \/ deletePostById(r)
    \/ deletePostById_destroy(r)
    \/ sharePostById(r)
    \/ sharePostById_create(r)
    \/ unsharePostById(r)

Next == Deliver \/ \E r \in Slots : Step(r)

Spec == Init /\ [][Next]_vars

TypeOK ==
    /\ pc \in [Slots -> {"idle", "create", "update", "destroy"}]
    /\ \A r \in Slots : req[r] \in Requests \cup {NoReq}
    /\ last.req \in Requests \cup {NoReq}
    /\ nextId \in 1..(MaxPosts + 1)
    /\ received \in 0..MaxRequests
    /\ \A row \in posts : row.id \in PostIds /\ row.id < nextId

\* ============================================================ properties
Credentialed == {"createPost", "modifyPostById", "deletePostById",
                 "sharePostById", "unsharePostById"}
Caller(q) == extractUser(q.authToken)
BadCredential(q) ==
    /\ q.handler \in Credentialed
    /\ ~missingToken(q.authToken)
    /\ invalidUser(Caller(q))
\* slot r runs a stretch of its handler after an await
Acts(r) == pc[r] # "idle" /\ pc'[r] # pc[r]
\* a handler returns in this step
Returns == last = NoLast /\ last' # NoLast
\* request q is received in this step
Entered(q) ==
    /\ received' = received + 1
    /\ \/ last'.req = q
       \/ \E r \in Slots : pc[r] = "idle" /\ req'[r] = q
\* the response is the catch block's: a store call failed
StoreFailed(rs) == rs.body = "error"
ValidCaller(q) ==
    ~missingToken(q.authToken) /\ ~invalidUser(Caller(q))

\* C1: a request whose Authorization header decodes to an identity without
\* an id ends with the 401 and never reaches a store call: it never awaits
\* one, and when it returns it has touched no store and written no row.
C1_InvalidCredentialStops ==
    /\ \A r \in Slots : Running(r) => ~BadCredential(req[r])
    /\ BadCredential(last.req) =>
          /\ last.res.status = 401
          /\ ~last.hist.touched
          /\ last.hist.affected = -1

\* C2: whenever a PUT or DELETE handler returns while its target post
\* exists and its caller is a user other than the post's author, the step
\* leaves the post table as it is and the response is the 403 (unless the
\* lookup itself failed); and no PUT or DELETE handler is past its
\* ownership test on a post that exists with another author.
C2_NotAuthorStep ==
    (/\ Returns
     /\ last'.req.handler \in {"modifyPostById", "deletePostById"}
     /\ ValidCaller(last'.req)
     /\ findByPk(last'.req.id) # NoPost
     /\ findByPk(last'.req.id).author # Caller(last'.req).id)
    => /\ posts' = posts
       /\ ~StoreFailed(last'.res) =>
             /\ last'.res.status = 403
             /\ last'.res.body = "Invalid author ID."
C2_NotAuthorNotPast ==
    \A r \in Slots :
        (/\ Running(r)
         /\ req[r].handler \in {"modifyPostById", "deletePostById"}
         /\ findByPk(req[r].id) # NoPost)
        => findByPk(req[r].id).author = Caller(req[r]).id
C3_MissingParentStep ==
    \A q \in Requests :
        (/\ Entered(q)
         /\ q.handler = "createPost"
         /\ ValidCaller(q)
         /\ q.parent # Null
         /\ findByPk(q.parent) = NoPost)
        => /\ posts' = posts
           /\ last'.req = q
           /\ ~StoreFailed(last'.res) => last'.res.status = 404
C3_ParentExistedAtInsert ==
    \A row \in posts :
        row.parent # Null => inserted[row.id].parentExisted
C3_ParentExists == []C3_ParentExistedAtInsert /\ [][C3_MissingParentStep]_vars

\* C4: in every reachable share table S, for every existing post P and user
\* V, the share of P by V followed by the unshare of P by V gives S back.
C4_ShareUnshareRoundTrip ==
    \A row \in posts : \A v \in UserIds :
        sharedPostDestroy(sharedPostCreate(sharedPost, row.id, v),
                          row.id, v) = sharedPost

\* C5: an unshare that finds no row (postId, caller) leaves the share table
\* as it is and returns 404 "not shared before" (unless the store call
\* failed); an unshare that returns 200 leaves no row (postId, caller), so
\* that repeating it finds none.
C5_UnshareWithoutRow ==
    [][(/\ Returns
        /\ last'.req.handler = "unsharePostById"
        /\ ValidCaller(last'.req))
       => LET k == <<last'.req.id, Caller(last'.req).id>> IN
          /\ sharedPost[k] = 0 =>
                /\ sharedPost' = sharedPost
                /\ ~StoreFailed(last'.res) =>
                      /\ last'.res.status = 404
                      /\ last'.res.body =
                           "The post was not shared by the user before."
          /\ last'.res.status = 200 => sharedPost'[k] = 0]_vars

C5_Witness ==
    /\ last.req.handler = "unsharePostById"
    /\ last.res.status = 404
    /\ last.res.body = "The post was not shared by the user before."
    /\ last.hist.affected = 0
    /\ findByPk(last.req.id) # NoPost
    /\ \E v \in UserIds : sharedPost[<<last.req.id, v>>] = 1

\* C6: every handler that returns has sent exactly one response, attempted
\* no second send and let no exception out.
C6_ExactlyOneResponse ==
    last # NoLast =>
        /\ last.res.status # 0
        /\ last.res.attempts = 1
        /\ ~last.res.escaped

\* C7: every post in the table has the author and the parent its inserting
\* request gave it, the author being that request's decoded identity id;
\* a step changes a post only by modifyPostById setting its text_content.
C7_AsInserted ==
    \A row \in posts :
        /\ row.author = inserted[row.id].author
        /\ row.parent = inserted[row.id].parent
        /\ row.author = inserted[row.id].identity
C7_OnlyTextChanges ==
    \A row \in posts : \A row2 \in posts' :
        (row2.id = row.id /\ row2 # row)
        => \E r \in Slots :
              /\ Acts(r)
              /\ req[r].handler = "modifyPostById"
              /\ req[r].id = row.id
              /\ row2 = [row EXCEPT !.text_content = req[r].text_content]
C7_AuthorParentWriteOnce == []C7_AsInserted /\ [][C7_OnlyTextChanges]_vars

C7_Witness ==
    /\ last.req.handler = "modifyPostById"
    /\ last.res.status = 200
    /\ \E row \in posts :
          /\ row.id = last.req.id
          /\ row.text_content = "edited"
          /\ row.parent # Null
          /\ row.author = Caller(last.req).id

\* C8: a modifyPostById that passed the gate and whose update matched no
\* row returns 500.
C8_ZeroRowsUpdatedIs500 ==
    (last.req.handler = "modifyPostById" /\ last.hist.affected = 0)
    => last.res.status = 500

\* C9: a deletePostById returns 200 only if its own destroy removed the
\* row and returns 500 "Failed to destroy" if its destroy removed none; no
\* post has two 200 answers to its deletes, and a delete by the author
\* returns 200, 404 or 500.
C9_OneDeleteSucceeds ==
    /\ \A p \in PostIds : okDeletes[p] <= 1
    /\ last.req.handler = "deletePostById" =>
          /\ last.res.status = 200 => last.hist.affected >= 1
          /\ last.hist.affected = 0 =>
                /\ last.res.status = 500
                /\ last.res.body = "Failed to destroy the post."
          /\ (/\ ~invalidUser(Caller(last.req))
              /\ Caller(last.req).id = inserted[last.req.id].identity)
             => last.res.status \in {200, 404, 500}

C9_Witness ==
    /\ last.req.handler = "deletePostById"
    /\ last.res.status = 500
    /\ last.res.body = "Failed to destroy the post."
    /\ last.hist.affected = 0
    /\ okDeletes[last.req.id] = 1

\* C10: the share table holds at most one row for any (postId, userId).
C10_OneRowPerPair == \A k \in ShareKeys : sharedPost[k] <= 1

====
